---- MODULE Spec2Model ----
(***************************************************************************)
(* Model of lib/sqlize/index.js: the Sqlize connection manager (a          *)
(* Sequelize subclass) and Sqlize.Model.                                   *)
(*                                                                         *)
(* The module holds one specification per component:                       *)
(*   SpecInitialize  Sqlize#initialize and the steps it awaits             *)
(*   SpecVersionSeq  getVersion / setVersion, one call at a time           *)
(*   SpecVersion     getVersion / setVersion, calls interleaved            *)
(*   SpecQuery       Sqlize#query                                          *)
(*   SpecFields      Sqlize#define up to addDefaultFields                  *)
(*   SpecRegister    Sqlize#register                                       *)
(*   SpecWrap        register, then calls of the wrapped methods           *)
(***************************************************************************)
EXTENDS Integers, Sequences, FiniteSets, TLC

VARIABLES
    \* ---- Sqlize#initialize ----
    pc,          \* position of the running initialize call
    trace,       \* what the call has done so far, in order
    outcome,     \* the promise initialize returned
    executed,    \* umzug's storage: the executed migrations, in order
    env,         \* process environment, options and package descriptor
    systemMeta,  \* the "versions" row of the SystemMeta table
    calls,       \* initialize calls made so far
    mig,         \* the running migrate call: storage before, value returned
    \* ---- Sqlize.Model.getVersion / setVersion ----
    procs,       \* the getVersion and setVersion calls in flight
    last,        \* per model, the version of the last fulfilled setVersion
    \* ---- Sqlize#query ----
    queries,     \* per call: what super.query did, what the caller observed
    events,      \* logger.error calls and 'error' events, in order
    \* ---- Sqlize#define / addDefaultFields ----
    fIn,         \* the fields a model declares (key order kept)
    fOpts,       \* the options record of the model
    fOut,        \* the field mapping handed to Model.init
    fDone,       \* how the mapping was produced
    \* ---- Sqlize#register / wrapMethods ----
    batch,       \* the models handed to register, in key order
    caps,        \* per model, the static capabilities it implements
    regLog,      \* what register did, in order
    methods,     \* per own function-valued property, how often it is wrapped
    invoked      \* the last call of a wrapped method

initVars == <<pc, trace, outcome, executed, env, calls, mig>>

verVars == <<procs, last>>

\* What each component leaves alone.
qVars == <<queries, events>>

fVars == <<fIn, fOpts, fOut, fDone>>

regVars == <<batch, caps, regLog, methods, invoked>>

restInitialize == <<verVars, qVars, fVars, regVars>>

restVersion == <<initVars, qVars, fVars, regVars>>

restQuery == <<initVars, systemMeta, verVars, fVars, regVars>>

restFields == <<initVars, systemMeta, verVars, qVars, regVars>>

restRegister == <<initVars, systemMeta, verVars, qVars, fVars>>

vars == <<pc, trace, outcome, executed, env, systemMeta, calls, mig,
          procs, last, queries, events, fIn, fOpts, fOut, fDone,
          batch, caps, regLog, methods, invoked>>

----------------------------------------------------------------------------
(* Bounds *)

MaxMigrations == 2   \* migration files in migrationsPath
MaxVersion == 3      \* engine versions 0..MaxVersion
MaxInitCalls == 2    \* initialize calls in one behaviour
MaxQueries == 3      \* query calls in one behaviour
MaxModels == 2       \* models in the batch handed to register
MaxFields == 2       \* fields a model declares
MaxTick == 1         \* version timestamps are 0, 1334, .. ms

----------------------------------------------------------------------------
(* Values *)

Models == {"Foo", "Bar"}

\* Date values (ms since the epoch) handed to setVersion.
Times == {t * 1334 : t \in 0..MaxTick}

MsPerSecond == 1000

\* JSON.stringify(date): the ISO-8601 text, kept as its seconds and
\* milliseconds parts.
toISOString(t) == [s |-> t \div MsPerSecond, ms |-> t % MsPerSecond]

\* date-fns parseISO of such a text.
parseISO(iso) == iso.s * MsPerSecond + iso.ms

NoVersion == [s |-> -1, ms |-> 0]

IsoValues == {toISOString(t) : t \in Times}

\* The data mapping of a SystemMeta row: model name -> ISO text, or nothing.
EmptyData == [m \in Models |-> NoVersion]

NoRow == [exists |-> FALSE, data |-> EmptyData]

\* Callers of getVersion / setVersion that may run at the same time.
Procs == {1, 2}

Never == -1

IdleProc == [pc |-> "idle", op |-> "", model |-> "", version |-> 0,
             sm |-> EmptyData, result |-> Never, err |-> ""]

\* Errors super.query rejects with; a database error carries its SQL text.
QueryErrors == {[name |-> "E1", sql |-> ""], [name |-> "E2", sql |-> "SELECT 1"]}

NoQueryError == [name |-> "", sql |-> ""]

QueryValues == {"rows", "undefined"}

NoQuery == [state |-> "none", under |-> "", value |-> "", err |-> NoQueryError,
            seen |-> "", seenValue |-> "", seenErr |-> NoQueryError]

\* Values of an option: not given, false, or a column name.
Undefined == "undefined"

False == "false"

OptionValues == {Undefined, False, "custom_at"}

NoOptions == [timestamps |-> Undefined, createdAt |-> Undefined,
              updatedAt |-> Undefined, deletedAt |-> Undefined,
              paranoid |-> Undefined, freezeTableName |-> Undefined]

Options == {[NoOptions EXCEPT !.timestamps = t, !.createdAt = c,
                 !.updatedAt = u, !.deletedAt = d] :
              t \in {Undefined, False, "true"}, c \in OptionValues,
              u \in OptionValues, d \in OptionValues}

FieldKeys == {"id", "createdAt", "deletedAt"}

\* A field a model declares itself.
Declared(key) == [key |-> key, field |-> key, autoGenerated |-> FALSE,
                  type |-> "STRING", allowNull |-> Undefined]

\* Field mappings: objects, kept as their entries in key order.
RECURSIVE FieldMapsOfLen(_)
FieldMapsOfLen(n) ==
    IF n = 0 THEN {<<>>}
    ELSE {Append(f, Declared(k)) :
            f \in FieldMapsOfLen(n - 1),
            k \in FieldKeys} 

Keys(f) == {f[i].key : i \in 1..Len(f)}

FieldMaps == {f \in UNION {FieldMapsOfLen(n) : n \in 0..MaxFields} :
                Cardinality(Keys(f)) = Len(f)}

\* The model classes of the application and the classes they extend, up to
\* Sequelize.Model.
ModelClasses == {"Foo", "Bar", "SystemMeta"}

Classes == ModelClasses \cup {"Base", "SqlizeModel"}

Parent(c) ==
    CASE c = "Foo" -> "Base"
      [] c = "SqlizeModel" -> "SequelizeModel"
      [] OTHER -> "SqlizeModel"

\* Own properties (Reflect.ownKeys) of each class and of its prototype.
Slots ==
    {[class |-> "Foo", side |-> "static", key |-> "associate", kind |-> "function"],
     [class |-> "Foo", side |-> "static", key |-> "name", kind |-> "value"],
     [class |-> "Foo", side |-> "prototype", key |-> "constructor", kind |-> "function"],
     [class |-> "Foo", side |-> "prototype", key |-> "greet", kind |-> "function"],
     [class |-> "Foo", side |-> "prototype", key |-> "fullName", kind |-> "getter"],
     [class |-> "Base", side |-> "static", key |-> "scopes", kind |-> "function"],
     [class |-> "Base", side |-> "prototype", key |-> "constructor", kind |-> "function"],
     [class |-> "Base", side |-> "prototype", key |-> "touch", kind |-> "function"],
     [class |-> "Bar", side |-> "static", key |-> "hooks", kind |-> "function"],
     [class |-> "Bar", side |-> "prototype", key |-> "constructor", kind |-> "function"],
     [class |-> "SystemMeta", side |-> "prototype", key |-> "constructor", kind |-> "function"],
     [class |-> "SqlizeModel", side |-> "static", key |-> "getVersion", kind |-> "function"],
     [class |-> "SqlizeModel", side |-> "static", key |-> "uniqueIndices", kind |-> "getter"],
     [class |-> "SqlizeModel", side |-> "static", key |-> "prototype", kind |-> "value"],
     [class |-> "SqlizeModel", side |-> "prototype", key |-> "constructor", kind |-> "function"]}

Capabilities == {"associate", "hooks", "scopes"}

\* What a method can return.
Value(tag, truthy, then, catch, canonical, of) ==
    [tag |-> tag, truthy |-> truthy, then |-> then, catch |-> catch,
     canonical |-> canonical, of |-> of]

Results ==
    {Value("plain object", TRUE, FALSE, FALSE, FALSE, ""),
     Value("undefined", FALSE, FALSE, FALSE, FALSE, ""),
     Value("canonical promise", TRUE, TRUE, TRUE, TRUE, ""),
     Value("native promise", TRUE, TRUE, TRUE, FALSE, ""),
     Value("thenable without catch", TRUE, TRUE, FALSE, FALSE, ""),
     Value("object with a catch method", TRUE, FALSE, TRUE, FALSE, "")}

NoSlot == [class |-> "", side |-> "", key |-> "", kind |-> ""]

NoCall == [slot |-> NoSlot, threw |-> FALSE,
           original |-> Value("", FALSE, FALSE, FALSE, FALSE, ""),
           threwOut |-> FALSE,
           returned |-> Value("", FALSE, FALSE, FALSE, FALSE, "")]

Dialects == {"postgres"}

NoRange == [lo |-> 0, hi |-> 0]

Ranges == {[lo |-> a, hi |-> b] : a \in 1..MaxVersion, b \in 1..MaxVersion}

Unparseable == -1

\* What databaseVersion() reports: a text such as "PostgreSQL 9.6", or one
\* that holds no number.
VersionTexts == [digits : {TRUE}, major : 0..MaxVersion]
                    \cup {[digits |-> FALSE, major |-> 0]}

NoErr == [name |-> "", dialect |-> "", range |-> NoRange]

\* Errors raised by the ORM, the driver or the migration runner.
Errors == {[name |-> n, dialect |-> "", range |-> NoRange] : n \in {"E1", "E2"}}

NotDefined == [name |-> "SystemMeta has not been defined", dialect |-> "",
               range |-> NoRange]

Ev(e, s, x) == [ev |-> e, step |-> s, err |-> x]

Pending == [state |-> "pending", value |-> "", err |-> NoErr]

Fulfilled(v) == [state |-> "fulfilled", value |-> v, err |-> NoErr]

Rejected(e) == [state |-> "rejected", value |-> "", err |-> e]

\* Ascending sequence of the members of a set of integers.
RECURSIVE SortedSeq(_)
SortedSeq(S) ==
    IF S = {} THEN <<>>
    ELSE LET x == CHOOSE y \in S : \A z \in S : y <= z
         IN <<x>> \o SortedSeq(S \ {x})

Range(s) == {s[i] : i \in 1..Len(s)}

----------------------------------------------------------------------------
(* Sqlize#initialize *)

\* semver.coerce: the number found in the version text, null (Unparseable)
\* for a text with no number in it.
coerce(version) == IF version.digits THEN version.major ELSE Unparseable

\* semver.satisfies(semver.coerce(version), range)
satisfies(version, range) ==
    /\ coerce(version) # Unparseable
    /\ range.lo <= coerce(version)
    /\ coerce(version) <= range.hi

\* new Error(`"${pkg.name}" requires ${dialect} ${range}`)
VersionError == [name |-> "requires", dialect |-> env.dialect, range |-> env.range]

\* umzug's pending migrations: the files not in storage, by name.
pending == SortedSeq((1..env.nFiles) \ Range(executed))

\* Sqlize#model('SystemMeta'): this.$models[name] || super.model(name)
HasSystemMeta == env.hasSystemMeta

\* No getVersion or setVersion call is made.
QuietVersion ==
    /\ procs = [p \in Procs |-> IdleProc]
    /\ last = [m \in Models |-> Never]

\* No query is made.
QuietQuery ==
    /\ queries = [i \in 1..MaxQueries |-> NoQuery]
    /\ events = <<>>

\* No model is defined.
QuietFields ==
    /\ fIn = <<>>
    /\ fOpts = NoOptions
    /\ fOut = <<>>
    /\ fDone = "no"

\* register was not called.
QuietRegister ==
    /\ batch = <<>>
    /\ caps = [c \in ModelClasses |-> {}]
    /\ regLog = <<>>
    /\ methods = [x \in Slots |-> 0]
    /\ invoked = NoCall

InitInitialize ==
    /\ pc = "idle"
    /\ trace = <<>>
    /\ outcome = Pending
    /\ calls = 0
    /\ env \in [isProduction : BOOLEAN, dialect : Dialects,
                range : Ranges \cup {NoRange},
                version : VersionTexts,
                nFiles : 0..MaxMigrations, hasSystemMeta : BOOLEAN]
    /\ \E S \in SUBSET (1..env.nFiles) : executed = SortedSeq(S)
    /\ systemMeta \in {NoRow, [exists |-> TRUE, data |-> EmptyData]}
    /\ mig = [before |-> <<>>, returned |-> <<>>, state |-> "none"]
    /\ QuietVersion
    /\ QuietQuery
    /\ QuietFields
    /\ QuietRegister

\* Appends to the trace.
Did(evs) == trace' = trace \o evs

\* async initialize(otherDb): runs to `await this.authenticate()`.
initialize ==
    /\ pc \in {"idle", "done"}
    /\ calls < MaxInitCalls
    /\ calls' = calls + 1
    /\ trace' = <<Ev("start", "authenticate", NoErr)>>
    /\ outcome' = Pending
    /\ mig' = [before |-> <<>>, returned |-> <<>>, state |-> "none"]
    /\ pc' = "authenticate"
    /\ UNCHANGED <<executed, env, systemMeta, restInitialize>>

\* authenticate() fulfils: log, then checkDatabaseVersion runs to
\* `await this.getQueryInterface().databaseVersion()`.
authenticateFulfil ==
    /\ pc = "authenticate"
    /\ Did(<<Ev("fulfil", "authenticate", NoErr),
             Ev("info", "initialize", NoErr),
             Ev("start", "checkDatabaseVersion", NoErr)>>)
    /\ pc' = "databaseVersion"
    /\ UNCHANGED <<outcome, executed, env, systemMeta, calls, mig, restInitialize>>

\* Mutant of authenticateReject: the rejection is caught and the next step
\* is started all the same.
authenticateRejectSwallowed(e) ==
    /\ pc = "authenticate"
    /\ Did(<<Ev("reject", "authenticate", e),
             Ev("start", "checkDatabaseVersion", NoErr)>>)
    /\ pc' = "databaseVersion"
    /\ UNCHANGED <<outcome, executed, env, systemMeta, calls, mig, restInitialize>>

\* authenticate() rejects: the await throws, initialize rejects.
authenticateReject(e) ==
    /\ pc = "authenticate"
    /\ Did(<<Ev("reject", "authenticate", e)>>)
    /\ outcome' = Rejected(e)
    /\ pc' = "done"
    /\ UNCHANGED <<executed, env, systemMeta, calls, mig, restInitialize>>

\* databaseVersion() rejects inside checkDatabaseVersion.
databaseVersionReject(e) ==
    /\ pc = "databaseVersion"
    /\ Did(<<Ev("reject", "checkDatabaseVersion", e)>>)
    /\ outcome' = Rejected(e)
    /\ pc' = "done"
    /\ UNCHANGED <<executed, env, systemMeta, calls, mig, restInitialize>>

\* Mutant of checkPasses: the range of the package descriptor is not looked at.
checkPassesNoRange == TRUE

\* The rest of checkDatabaseVersion once the version is known: TRUE when it
\* returns this, FALSE when it logs and throws.
checkPasses ==
    \/ env.range = NoRange
    \/ satisfies(env.version, env.range)

\* Mutant of migrateAwaits: umzug.up() whatever the execution context.
migrateAwaitsAlwaysUp == "up"

\* migrate() up to its first await: umzug.up() unless in production.
migrateAwaits == IF env.isProduction THEN "executed" ELSE "up"

\* databaseVersion() fulfils: checkDatabaseVersion finishes; when it
\* returns, initialize calls migrate.
databaseVersionFulfil ==
    /\ pc = "databaseVersion"
    /\ IF checkPasses
       THEN /\ Did(<<Ev("info", "checkDatabaseVersion", NoErr),
                     Ev("fulfil", "checkDatabaseVersion", NoErr),
                     Ev("start", "migrate", NoErr)>>)
            /\ mig' = [before |-> executed, returned |-> <<>>, state |-> "running"]
            /\ pc' = migrateAwaits
            /\ UNCHANGED outcome
       ELSE /\ Did(<<Ev("info", "checkDatabaseVersion", NoErr),
                     Ev("error", "checkDatabaseVersion", VersionError),
                     Ev("reject", "checkDatabaseVersion", VersionError)>>)
            /\ outcome' = Rejected(VersionError)
            /\ pc' = "done"
            /\ UNCHANGED mig
    /\ UNCHANGED <<executed, env, systemMeta, calls, restInitialize>>

\* umzug.up() fulfils: every pending migration was applied, in order.
umzugUpFulfil ==
    /\ pc = "up"
    /\ executed' = executed \o pending
    /\ pc' = "executed"
    /\ UNCHANGED <<trace, outcome, env, systemMeta, calls, mig, restInitialize>>

\* umzug.up() rejects with e after applying the first k pending migrations.
umzugUpReject(k, e) ==
    /\ pc = "up"
    /\ k < Len(pending)
    /\ executed' = executed \o SubSeq(pending, 1, k)
    /\ Did(<<Ev("reject", "migrate", e)>>)
    /\ mig' = [mig EXCEPT !.state = "rejected"]
    /\ outcome' = Rejected(e)
    /\ pc' = "done"
    /\ UNCHANGED <<env, systemMeta, calls, restInitialize>>

\* umzug.executed() rejects.
umzugExecutedReject(e) ==
    /\ pc = "executed"
    /\ Did(<<Ev("reject", "migrate", e)>>)
    /\ mig' = [mig EXCEPT !.state = "rejected"]
    /\ outcome' = Rejected(e)
    /\ pc' = "done"
    /\ UNCHANGED <<executed, env, systemMeta, calls, restInitialize>>

\* What initialize does with the list migrate returned (lines 157-160),
\* up to the next await or its return.
afterMigrate(migrations) ==
    IF Len(migrations) = 0
    THEN /\ Did(<<Ev("fulfil", "migrate", NoErr)>>)
         /\ outcome' = Fulfilled("undefined")
         /\ pc' = "done"
    ELSE IF HasSystemMeta
    THEN /\ Did(<<Ev("fulfil", "migrate", NoErr),
                  Ev("info", "initialize", NoErr),
                  Ev("start", "initSystemMeta", NoErr)>>)
         /\ pc' = "bulkCreate"
         /\ UNCHANGED outcome
    ELSE /\ Did(<<Ev("fulfil", "migrate", NoErr),
                  Ev("info", "initialize", NoErr),
                  Ev("start", "initSystemMeta", NoErr),
                  Ev("reject", "initSystemMeta", NotDefined)>>)
         /\ outcome' = Rejected(NotDefined)
         /\ pc' = "done"

\* umzug.executed() fulfils: migrate returns the stored list.
umzugExecutedFulfil ==
    /\ pc = "executed"
    /\ mig' = [mig EXCEPT !.returned = executed, !.state = "returned"]
    /\ afterMigrate(executed)
    /\ UNCHANGED <<executed, env, systemMeta, calls, restInitialize>>

\* SystemMeta.bulkCreate(items, { ignoreDuplicates: true }) with
\* items = [{ name: 'versions', data: {} }].
bulkCreate(table) ==
    IF table.exists THEN table ELSE [exists |-> TRUE, data |-> EmptyData]

\* bulkCreate fulfils: initSystemMeta is done, initialize returns this.
bulkCreateFulfil ==
    /\ pc = "bulkCreate"
    /\ systemMeta' = bulkCreate(systemMeta)
    /\ Did(<<Ev("fulfil", "initSystemMeta", NoErr)>>)
    /\ outcome' = Fulfilled("this")
    /\ pc' = "done"
    /\ UNCHANGED <<executed, env, calls, mig, restInitialize>>

\* bulkCreate rejects.
bulkCreateReject(e) ==
    /\ pc = "bulkCreate"
    /\ Did(<<Ev("reject", "initSystemMeta", e)>>)
    /\ outcome' = Rejected(e)
    /\ pc' = "done"
    /\ UNCHANGED <<executed, env, systemMeta, calls, mig, restInitialize>>

NextInitialize ==
    \/ initialize
    \/ authenticateFulfil
    \/ \E e \in Errors : authenticateReject(e)
    \/ databaseVersionFulfil
    \/ \E e \in Errors : databaseVersionReject(e)
    \/ umzugUpFulfil
    \/ \E k \in 0..MaxMigrations, e \in Errors : umzugUpReject(k, e)
    \/ umzugExecutedFulfil
    \/ \E e \in Errors : umzugExecutedReject(e)
    \/ bulkCreateFulfil
    \/ \E e \in Errors : bulkCreateReject(e)

SpecInitialize == InitInitialize /\ [][NextInitialize]_vars

----------------------------------------------------------------------------
(* Sqlize.Model.getSystemMeta / getVersion / setVersion *)

\* The initialize component at rest, on a database whose migrations ran.
QuietInitialize ==
    /\ pc = "idle"
    /\ trace = <<>>
    /\ outcome = Pending
    /\ calls = 0
    /\ env = [isProduction |-> FALSE, dialect |-> "postgres", range |-> NoRange,
              version |-> [digits |-> TRUE, major |-> 0],
              nFiles |-> 0, hasSystemMeta |-> TRUE]
    /\ executed = <<>>
    /\ mig = [before |-> <<>>, returned |-> <<>>, state |-> "none"]

InitVersion ==
    /\ QuietInitialize
    /\ QuietVersion
    /\ QuietQuery
    /\ QuietFields
    /\ QuietRegister
    /\ systemMeta \in {NoRow, [exists |-> TRUE, data |-> EmptyData]}

\* static async getVersion(options) / setVersion(version, options): runs to
\* the findOrCreate awaited in getSystemMeta('versions').
callVersion(p, op, m, v) ==
    /\ procs[p].pc \in {"idle", "done"}
    /\ procs' = [procs EXCEPT ![p] = [IdleProc EXCEPT !.pc = "findOrCreate",
                     !.op = op, !.model = m, !.version = v]]
    /\ UNCHANGED <<systemMeta, last, restVersion>>

\* The same, called once every earlier call has settled and its caller has
\* taken the result.
callVersionSeq(p, op, m, v) ==
    /\ \A q \in Procs : procs[q].pc \in {"idle", "done"}
    /\ procs' = [q \in Procs |->
                   IF q = p
                   THEN [IdleProc EXCEPT !.pc = "findOrCreate",
                            !.op = op, !.model = m, !.version = v]
                   ELSE IdleProc]
    /\ UNCHANGED <<systemMeta, last, restVersion>>

\* SystemMeta.findOrCreate({ where: { name } }): the row, created when absent.
findOrCreate(table) ==
    IF table.exists THEN table ELSE [exists |-> TRUE, data |-> EmptyData]

\* getVersion's `version ? parseISO(version) : new Date(0)`.
versionOf(sm, m) == IF sm[m] # NoVersion THEN parseISO(sm[m]) ELSE 0

\* Mutant of saved: only the key that was set is written.
savedOwnKeyOnly(sm, m, v) == [EmptyData EXCEPT ![m] = toISOString(v)]

\* What sm.save() writes: the whole data column of the instance, with
\* data[model] set to the version, serialised as JSON.
saved(sm, m, v) == [sm EXCEPT ![m] = toISOString(v)]

\* findOrCreate fulfils. getVersion reads data[this.name] and returns;
\* setVersion sets data[this.name] on its instance and calls sm.save().
findOrCreateFulfil(p) ==
    /\ procs[p].pc = "findOrCreate"
    /\ systemMeta' = findOrCreate(systemMeta)
    /\ IF procs[p].op = "getVersion"
       THEN procs' = [procs EXCEPT ![p].pc = "done",
                        ![p].result = versionOf(systemMeta'.data, procs[p].model)]
       ELSE procs' = [procs EXCEPT ![p].pc = "save",
                        ![p].sm = systemMeta'.data]
    /\ UNCHANGED <<last, restVersion>>

\* findOrCreate rejects: the call rejects with the same error.
findOrCreateReject(p, e) ==
    /\ procs[p].pc = "findOrCreate"
    /\ procs' = [procs EXCEPT ![p].pc = "done", ![p].err = e]
    /\ UNCHANGED <<systemMeta, last, restVersion>>

\* sm.save() fulfils: the row's data column is overwritten.
saveFulfil(p) ==
    /\ procs[p].pc = "save"
    /\ systemMeta' = [systemMeta EXCEPT
                        !.data = saved(procs[p].sm, procs[p].model, procs[p].version)]
    /\ procs' = [procs EXCEPT ![p].pc = "done", ![p].sm = EmptyData]
    /\ last' = [last EXCEPT ![procs[p].model] = procs[p].version]
    /\ UNCHANGED restVersion

\* sm.save() rejects.
saveReject(p, e) ==
    /\ procs[p].pc = "save"
    /\ procs' = [procs EXCEPT ![p].pc = "done", ![p].sm = EmptyData, ![p].err = e]
    /\ UNCHANGED <<systemMeta, last, restVersion>>

VersionSteps ==
    \/ \E p \in Procs : findOrCreateFulfil(p)
    \/ \E p \in Procs, e \in {"E1"} : findOrCreateReject(p, e)
    \/ \E p \in Procs : saveFulfil(p)
    \/ \E p \in Procs, e \in {"E1"} : saveReject(p, e)

NextVersionSeq ==
    \/ \E p \in Procs, m \in Models : callVersionSeq(p, "getVersion", m, 0)
    \/ \E p \in Procs, m \in Models, v \in Times : callVersionSeq(p, "setVersion", m, v)
    \/ VersionSteps

NextVersion ==
    \/ \E p \in Procs, m \in Models : callVersion(p, "getVersion", m, 0)
    \/ \E p \in Procs, m \in Models, v \in Times : callVersion(p, "setVersion", m, v)
    \/ VersionSteps

SpecVersionSeq == InitVersion /\ [][NextVersionSeq]_vars

SpecVersion == InitVersion /\ [][NextVersion]_vars

----------------------------------------------------------------------------
(* Sqlize#query *)

InitQuery ==
    /\ QuietInitialize
    /\ QuietVersion
    /\ QuietFields
    /\ QuietRegister
    /\ systemMeta = NoRow
    /\ QuietQuery

\* query(sql, options): calls super.query and chains the catch handler.
query(i) ==
    /\ queries[i].state = "none"
    /\ \A j \in 1..(i - 1) : queries[j].state # "none"
    /\ queries' = [queries EXCEPT ![i].state = "pending"]
    /\ UNCHANGED <<events, restQuery>>

\* super.query fulfils: the catch handler is skipped, the value passes on.
superQueryFulfil(i, v) ==
    /\ queries[i].state = "pending"
    /\ queries' = [queries EXCEPT ![i].state = "settled", ![i].under = "fulfilled",
                      ![i].value = v, ![i].seen = "fulfilled", ![i].seenValue = v]
    /\ UNCHANGED <<events, restQuery>>

\* logger.error(ctx, ...): ctx holds the error, and its SQL text if any.
loggerError(evs, i, err) ==
    Append(evs, [kind |-> "logger.error", call |-> i, err |-> err, query |-> err.sql])

\* this.emit('error', err)
emit(evs, i, err) ==
    Append(evs, [kind |-> "emit error", call |-> i, err |-> err, query |-> ""])

\* Mutant of handled: the handler logs and emits, and returns nothing.
handledSwallows(i, err) ==
    /\ events' = emit(loggerError(events, i, err), i, err)
    /\ queries' = [queries EXCEPT ![i].state = "settled", ![i].under = "rejected",
                      ![i].err = err, ![i].seen = "fulfilled",
                      ![i].seenValue = Undefined]

\* The catch handler: log, emit, return Promise.reject(err).
handled(i, err) ==
    /\ events' = emit(loggerError(events, i, err), i, err)
    /\ queries' = [queries EXCEPT ![i].state = "settled", ![i].under = "rejected",
                      ![i].err = err, ![i].seen = "rejected", ![i].seenErr = err]

\* super.query rejects: the catch handler runs.
superQueryReject(i, err) ==
    /\ queries[i].state = "pending"
    /\ handled(i, err)
    /\ UNCHANGED restQuery

NextQuery ==
    \/ \E i \in 1..MaxQueries : query(i)
    \/ \E i \in 1..MaxQueries, v \in QueryValues : superQueryFulfil(i, v)
    \/ \E i \in 1..MaxQueries, e \in QueryErrors : superQueryReject(i, e)

SpecQuery == InitQuery /\ [][NextQuery]_vars

----------------------------------------------------------------------------
(* Sqlize#define, addDefaultFields, addTimestamps *)

Truthy(x) == x \notin {Undefined, False}

\* A generated timestamp field; allowNull is not given for deletedAt.
Generated(key, field, allowNull) ==
    [key |-> key, field |-> field, autoGenerated |-> TRUE, type |-> "DATE",
     allowNull |-> allowNull]

\* options.x || 'x_at'
FieldName(option, default) == IF Truthy(option) THEN option ELSE default

IndexOf(f, key) == CHOOSE i \in 1..Len(f) : f[i].key = key

\* Object.assign(target, source): a key of the target keeps its place and
\* takes the source's value, a new key goes to the end.
RECURSIVE assign(_, _)
assign(target, source) ==
    IF source = <<>> THEN target
    ELSE LET e == Head(source)
             t == IF e.key \in Keys(target)
                  THEN [target EXCEPT ![IndexOf(target, e.key)] = e]
                  ELSE Append(target, e)
         IN assign(t, Tail(source))

\* The tail addTimestamps builds.
tail(options) ==
    (IF options.createdAt # False
     THEN <<Generated("createdAt", FieldName(options.createdAt, "created_at"), False)>>
     ELSE <<>>)
    \o (IF options.updatedAt # False
        THEN <<Generated("updatedAt", FieldName(options.updatedAt, "updated_at"), False)>>
        ELSE <<>>)
    \o (IF options.deletedAt # False
        THEN <<Generated("deletedAt", FieldName(options.deletedAt, "deleted_at"), Undefined)>>
        ELSE <<>>)

addTimestamps(fields, options) == assign(assign(<<>>, fields), tail(options))

\* Mutant of addDefaultFields: options.timestamps is not looked at.
addDefaultFieldsAlways(fields, options) == addTimestamps(fields, options)

addDefaultFields(fields, options) ==
    IF Truthy(options.timestamps) THEN addTimestamps(fields, options) ELSE fields

\* The defaults define gives the options record (lines 87-89).
defaults(options) ==
    [options EXCEPT
        !.freezeTableName = IF @ # False THEN "true" ELSE @,
        !.paranoid = IF @ # False THEN "true" ELSE @,
        !.timestamps = IF @ # False THEN "true" ELSE @]

InitFields ==
    /\ QuietInitialize
    /\ QuietVersion
    /\ QuietQuery
    /\ QuietRegister
    /\ systemMeta = NoRow
    /\ fIn \in FieldMaps
    /\ fOpts \in Options
    /\ fOut = <<>>
    /\ fDone = "no"

\* addDefaultFields(fields, options), called with the record as it is.
addDefaultFieldsCall ==
    /\ fDone = "no"
    /\ fOut' = addDefaultFields(fIn, fOpts)
    /\ fDone' = "addDefaultFields"
    /\ UNCHANGED <<fIn, fOpts, restFields>>

\* define(Model) up to Model.init: the defaults, then addDefaultFields.
define ==
    /\ fDone = "no"
    /\ fOpts' = defaults(fOpts)
    /\ fOut' = addDefaultFields(fIn, fOpts')
    /\ fDone' = "define"
    /\ UNCHANGED <<fIn, restFields>>

NextFields ==
    \/ addDefaultFieldsCall
    \/ define

SpecFields == InitFields /\ [][NextFields]_vars

----------------------------------------------------------------------------
(* Sqlize#register, wrapMethods, wrapMethod *)

\* The classes wrapMethods walks from Model: Model and what it extends, up to
\* but not Sequelize.Model.
RECURSIVE Chain(_)
Chain(c) == IF c = "SequelizeModel" THEN <<>> ELSE <<c>> \o Chain(Parent(c))

\* wrapMethod(object, key, Promise): TRUE when the property is replaced.
wraps(slot) == slot.key # "constructor" /\ slot.kind = "function"

\* wrapMethods(Model, Promise) on a method table.
wrapMethods(table, Model) ==
    [x \in Slots |->
        IF x.class \in Range(Chain(Model)) /\ wraps(x) THEN table[x] + 1 ELSE table[x]]

RECURSIVE wrapAll(_, _)
wrapAll(table, models) ==
    IF models = <<>> THEN table
    ELSE wrapAll(wrapMethods(table, Head(models)), Tail(models))

Op(op, m) == [op |-> op, model |-> m]

\* The second loop's body for one model: invoke(Model, 'associate', models),
\* addHooks, addScopes.
wire(Model, cs) ==
    (IF "associate" \in cs THEN <<Op("associate", Model)>> ELSE <<>>)
    \o (IF "hooks" \in cs THEN <<Op("hooks", Model), Op("addHook", Model)>> ELSE <<>>)
    \o (IF "scopes" \in cs THEN <<Op("scopes", Model), Op("addScope", Model)>> ELSE <<>>)

RECURSIVE defineEach(_)
defineEach(models) ==
    IF models = <<>> THEN <<>>
    ELSE <<Op("define", Head(models))>> \o defineEach(Tail(models))

RECURSIVE wireEach(_, _)
wireEach(models, c) ==
    IF models = <<>> THEN <<>>
    ELSE wire(Head(models), c[Head(models)]) \o wireEach(Tail(models), c)

\* Mutant of registerLog: one loop that defines and wires each model in turn.
RECURSIVE registerLogOneLoop(_, _)
registerLogOneLoop(models, c) ==
    IF models = <<>> THEN <<>>
    ELSE <<Op("define", Head(models))>> \o wire(Head(models), c[Head(models)])
            \o registerLogOneLoop(Tail(models), c)

\* What register(models) does, in order: both forEach loops.
registerLog(models, c) == defineEach(models) \o wireEach(models, c)

\* Batches: objects of model classes, kept as their keys in order.
Batches == {b \in UNION {[1..n -> ModelClasses] : n \in 1..MaxModels} :
              Cardinality(Range(b)) = Len(b)}

InitRegister ==
    /\ QuietInitialize
    /\ QuietVersion
    /\ QuietQuery
    /\ QuietFields
    /\ systemMeta = NoRow
    /\ batch \in Batches
    /\ caps \in {c \in [ModelClasses -> SUBSET Capabilities] :
                    \A m \in ModelClasses \ Range(batch) : c[m] = {}}
    /\ regLog = <<>>
    /\ methods = [x \in Slots |-> 0]
    /\ invoked = NoCall

\* The capabilities the classes of the catalogue declare.
Declares(m) ==
    CASE m = "Foo" -> {"associate", "scopes"}
      [] m = "Bar" -> {"hooks"}
      [] OTHER -> {}

InitWrap ==
    /\ QuietInitialize
    /\ QuietVersion
    /\ QuietQuery
    /\ QuietFields
    /\ systemMeta = NoRow
    /\ batch \in Batches
    /\ caps = [m \in ModelClasses |-> IF m \in Range(batch) THEN Declares(m) ELSE {}]
    /\ regLog = <<>>
    /\ methods = [x \in Slots |-> 0]
    /\ invoked = NoCall

\* register(models): every model is defined (its methods wrapped), then
\* every model is wired.
register ==
    /\ regLog = <<>>
    /\ regLog' = registerLog(batch, caps)
    /\ methods' = wrapAll(methods, batch)
    /\ UNCHANGED <<batch, caps, invoked, restRegister>>

\* Promise.resolve(result) of the canonical promise constructor.
PromiseResolve(result) ==
    IF result.canonical THEN result
    ELSE Value("canonical promise", TRUE, TRUE, TRUE, TRUE, result.tag)

\* The wrapper wrapMethod installs, applied to the original's result.
wrapper(result) ==
    IF ~result.truthy \/ ~result.catch THEN result ELSE PromiseResolve(result)

RECURSIVE wrapped(_, _)
wrapped(n, result) == IF n = 0 THEN result ELSE wrapper(wrapped(n - 1, result))

\* A wrapped method is called and its original returns.
invokeReturns(slot, result) ==
    /\ regLog # <<>>
    /\ methods[slot] > 0
    /\ invoked' = [slot |-> slot, threw |-> FALSE, original |-> result,
                   threwOut |-> FALSE, returned |-> wrapped(methods[slot], result)]
    /\ UNCHANGED <<batch, caps, regLog, methods, restRegister>>

\* A wrapped method is called and its original throws.
invokeThrows(slot) ==
    /\ regLog # <<>>
    /\ methods[slot] > 0
    /\ invoked' = [NoCall EXCEPT !.slot = slot, !.threw = TRUE, !.threwOut = TRUE]
    /\ UNCHANGED <<batch, caps, regLog, methods, restRegister>>

NextRegister == register

NextWrap ==
    \/ register
    \/ \E slot \in Slots, r \in Results : invokeReturns(slot, r)
    \/ \E slot \in Slots : invokeThrows(slot)

SpecRegister == InitRegister /\ [][NextRegister]_vars

SpecWrap == InitWrap /\ [][NextWrap]_vars

----------------------------------------------------------------------------
(* Claims about register and the wrapped methods *)

Index(op, m) == {i \in 1..Len(regLog) : regLog[i] = Op(op, m)}

Before(A, B) == \A i \in A, j \in B : i < j

\* C6: in register(models) every model of the batch is defined before the
\* association hook of any model runs; for each model the association hook
\* runs before its hooks are attached, and those before its scopes.
C6_DefineAllThenWire ==
    regLog # <<>>
        => /\ \A m \in Range(batch) : Cardinality(Index("define", m)) = 1
           /\ \A m, n \in Range(batch) :
                /\ Before(Index("define", m), Index("associate", n))
                /\ Before(Index("define", m), Index("addHook", n))
                /\ Before(Index("define", m), Index("addScope", n))
           /\ \A m \in Range(batch) :
                /\ "associate" \in caps[m] => Cardinality(Index("associate", m)) = 1
                /\ Before(Index("associate", m), Index("addHook", m))
                /\ Before(Index("associate", m), Index("addScope", m))
                /\ Before(Index("addHook", m), Index("addScope", m))

\* Two models were registered, the first with an association hook, hooks and
\* scopes, the second with an association hook.
C6_Witness ==
    /\ regLog # <<>>
    /\ Len(batch) = 2
    /\ caps[batch[1]] = Capabilities
    /\ "associate" \in caps[batch[2]]

\* C9: a wrapped method returns the original's result unchanged when that
\* result is no thenable, returns it resolved through the canonical promise
\* constructor when it is a thenable, and lets a throw of the original
\* through.
C9_NormalizesThenables ==
    invoked # NoCall
        => /\ invoked.threw = invoked.threwOut
           /\ (~invoked.threw /\ ~invoked.original.then)
                => invoked.returned = invoked.original
           /\ (~invoked.threw /\ invoked.original.then)
                => invoked.returned = PromiseResolve(invoked.original)

----------------------------------------------------------------------------
(* Claims about query *)

EventsOf(i) == SelectSeq(events, LAMBDA x : x.call = i)

\* C4: a query whose underlying query fulfils gives the caller the same
\* value, with no error logged and no 'error' event; one that rejects with E
\* logs the error, then emits one 'error' event carrying E, and the caller's
\* promise rejects with E.
C4_QueryPassesThrough ==
    \A i \in 1..MaxQueries :
        /\ queries[i].state # "settled" => EventsOf(i) = <<>>
        /\ (queries[i].state = "settled" /\ queries[i].under = "fulfilled")
              => /\ queries[i].seen = "fulfilled"
                 /\ queries[i].seenValue = queries[i].value
                 /\ EventsOf(i) = <<>>
        /\ (queries[i].state = "settled" /\ queries[i].under = "rejected")
              => /\ queries[i].seen = "rejected"
                 /\ queries[i].seenErr = queries[i].err
                 /\ Len(EventsOf(i)) = 2
                 /\ EventsOf(i)[1].kind = "logger.error"
                 /\ EventsOf(i)[1].err = queries[i].err
                 /\ EventsOf(i)[2].kind = "emit error"
                 /\ EventsOf(i)[2].err = queries[i].err

\* One query was rejected and another fulfilled.
C4_Witness ==
    \E i, j \in 1..MaxQueries :
        /\ queries[i].state = "settled" /\ queries[i].seen = "rejected"
        /\ queries[i].seenErr.sql # ""
        /\ queries[j].state = "settled" /\ queries[j].seen = "fulfilled"

----------------------------------------------------------------------------
(* Claims about the default fields *)

Stamps == {"createdAt", "updatedAt", "deletedAt"}

NoOverrides ==
    /\ fOpts.createdAt = Undefined
    /\ fOpts.updatedAt = Undefined
    /\ fOpts.deletedAt = Undefined

CreatedAt == Generated("createdAt", "created_at", False)

UpdatedAt == Generated("updatedAt", "updated_at", False)

DeletedAt == Generated("deletedAt", "deleted_at", Undefined)

\* The entries of f whose key is not in S, in order.
Without(f, S) == SelectSeq(f, LAMBDA x : x.key \notin S)

\* What the three cases have in common: nothing is added with timestamps
\* off; with deletedAt off and the rest default, createdAt and updatedAt are
\* the generated fields and no deletedAt is generated.
C8_OtherCases ==
    /\ fOpts.timestamps = False => fOut = fIn
    /\ (Truthy(fOpts.timestamps) /\ fOpts.deletedAt = False
          /\ fOpts.createdAt = Undefined /\ fOpts.updatedAt = Undefined)
         => /\ \E i \in 1..Len(fOut) : fOut[i] = CreatedAt
            /\ \E i \in 1..Len(fOut) : fOut[i] = UpdatedAt
            /\ \A i \in 1..Len(fOut) :
                  ~(fOut[i].key = "deletedAt" /\ fOut[i].autoGenerated)
            /\ Without(fOut, Stamps) = Without(fIn, Stamps)

\* C8 as claimed: for every field mapping, with timestamps enabled and no
\* overrides the result is the original fields followed by createdAt,
\* updatedAt and deletedAt; with timestamps false it is the input; with
\* deletedAt false createdAt and updatedAt are added and deletedAt is not.
C8_AugmenterAsClaimed ==
    fDone # "no"
        => /\ (Truthy(fOpts.timestamps) /\ NoOverrides)
                => fOut = fIn \o <<CreatedAt, UpdatedAt, DeletedAt>>
           /\ C8_OtherCases

\* C8 as amended: the first case holds for the field mappings that declare
\* no createdAt, updatedAt or deletedAt of their own; a field declared under
\* one of these names is replaced, in its place, by the generated field, and
\* the other fields are kept as they are and in their order.
C8_AugmenterAmended ==
    fDone # "no"
        => /\ (Truthy(fOpts.timestamps) /\ NoOverrides)
                => /\ Keys(fIn) \cap Stamps = {}
                        => fOut = fIn \o <<CreatedAt, UpdatedAt, DeletedAt>>
                   /\ Without(fOut, Stamps) = Without(fIn, Stamps)
                   /\ Len(fOut) = Cardinality(Keys(fIn) \cup Stamps)
                   /\ \A i \in 1..Len(fOut) :
                        /\ i <= Len(fIn) => fOut[i].key = fIn[i].key
                        /\ fOut[i].key \in Stamps
                             => fOut[i] \in {CreatedAt, UpdatedAt, DeletedAt}
                   /\ Without(fOut, Keys(fIn)) =
                         Without(<<CreatedAt, UpdatedAt, DeletedAt>>, Keys(fIn))
           /\ C8_OtherCases

\* define ran on a model that declares its own createdAt, with no overrides.
C8_Witness ==
    /\ fDone = "define"
    /\ NoOverrides
    /\ fOpts.timestamps = "true"
    /\ "createdAt" \in Keys(fIn)
    /\ Len(fIn) = 2
    /\ Len(fOut) = 4

----------------------------------------------------------------------------
(* Claims about getVersion / setVersion *)

\* C7: when calls do not overlap, getVersion on a model returns the version
\* of the last fulfilled setVersion on that model, whatever was set on other
\* models since, and the epoch when the model was never versioned.
C7_GetReturnsLastSet ==
    \A p \in Procs :
        (procs[p].pc = "done" /\ procs[p].op = "getVersion" /\ procs[p].err = "")
            => procs[p].result =
                 (IF last[procs[p].model] = Never THEN 0 ELSE last[procs[p].model])

\* getVersion('Foo') returned a version set before a later setVersion on Bar.
C7_Witness ==
    \E p \in Procs :
        /\ procs[p].pc = "done" /\ procs[p].op = "getVersion" /\ procs[p].err = ""
        /\ procs[p].model = "Foo"
        /\ procs[p].result > MsPerSecond
        /\ last["Bar"] # Never
        /\ last["Bar"] # last["Foo"]

\* C10: once two concurrent setVersion calls on two distinct models have
\* both completed, the stored record holds the new version of both models.
C10_NoLostUpdate ==
    \A p, q \in Procs :
        (/\ p # q
         /\ procs[p].pc = "done" /\ procs[p].op = "setVersion" /\ procs[p].err = ""
         /\ procs[q].pc = "done" /\ procs[q].op = "setVersion" /\ procs[q].err = ""
         /\ procs[p].model # procs[q].model)
            => /\ systemMeta.data[procs[p].model] = toISOString(procs[p].version)
               /\ systemMeta.data[procs[q].model] = toISOString(procs[q].version)

----------------------------------------------------------------------------
(* Claims about initialize *)

Order == <<"authenticate", "checkDatabaseVersion", "migrate", "initSystemMeta">>

IsStart(x) == x.ev = "start"

Starts == SelectSeq(trace, IsStart)

Has(e, s) == \E i \in 1..Len(trace) : trace[i].ev = e /\ trace[i].step = s

\* C1: the steps of an initialize call start in the order authenticate,
\* checkDatabaseVersion, migrate, initSystemMeta, each only after the
\* previous one has fulfilled; when a step rejects, initialize rejects with
\* that error and no later step is started.
C1_StepsInOrder ==
    /\ Len(Starts) <= Len(Order)
    /\ \A i \in 1..Len(Starts) : Starts[i].step = Order[i]
    /\ \A i \in 1..Len(trace) : \A k \in 2..Len(Order) :
         (trace[i].ev = "start" /\ trace[i].step = Order[k])
            => \E j \in 1..(i - 1) :
                  trace[j].ev = "fulfil" /\ trace[j].step = Order[k - 1]
    /\ \A i \in 1..Len(trace) :
         trace[i].ev = "reject"
            => /\ outcome = Rejected(trace[i].err)
               /\ \A j \in (i + 1)..Len(trace) : trace[j].ev # "start"

\* All four steps were started and the last one rejected.
C1_Witness ==
    /\ Len(Starts) = Len(Order)
    /\ \E e \in Errors : trace[Len(trace)] = Ev("reject", "initSystemMeta", e)
    /\ outcome.state = "rejected"

\* C2: an initialize call that gets past authentication, the version check
\* and the migration run seeds the "versions" record and resolves with the
\* connection manager itself, whatever list migrate returned.
C2_SeedsThenReturnsThis ==
    outcome.state = "fulfilled"
        => /\ outcome.value = "this"
           /\ Has("fulfil", "initSystemMeta")
           /\ systemMeta.exists

ErrorLogs == {i \in 1..Len(trace) :
                trace[i].ev = "error" /\ trace[i].step = "checkDatabaseVersion"}

\* C3: with a required range for the dialect, a reported version outside
\* the range is logged as an error once and then rejected with an error
\* naming the range and the dialect; a version inside the range logs no
\* error and the migration step is started.
C3_VersionCheck ==
    (env.range # NoRange /\ Has("info", "checkDatabaseVersion"))
        => IF satisfies(env.version, env.range)
           THEN /\ ErrorLogs = {}
                /\ Has("fulfil", "checkDatabaseVersion")
                /\ Has("start", "migrate")
           ELSE /\ Cardinality(ErrorLogs) = 1
                /\ \A i \in ErrorLogs :
                     /\ trace[i].err.dialect = env.dialect
                     /\ trace[i].err.range = env.range
                     /\ i < Len(trace)
                     /\ trace[i + 1] = Ev("reject", "checkDatabaseVersion", trace[i].err)
                     /\ outcome = Rejected(trace[i].err)
                /\ ~Has("start", "migrate")

\* The engine was out of range and the call was rejected for it.
C3_Witness ==
    /\ env.range # NoRange
    /\ ~satisfies(env.version, env.range)
    /\ env.version.digits
    /\ outcome = Rejected(VersionError)

\* C5: in production migrate leaves the executed migrations as they were
\* and returns them; outside production every pending migration is applied
\* before the list is read, so the list returned holds the migrations
\* executed before and every file of the migrations directory.
C5_MigrateOnlyOutsideProduction ==
    /\ (env.isProduction /\ mig.state # "none") => executed = mig.before
    /\ (env.isProduction /\ mig.state = "returned") => mig.returned = mig.before
    /\ (~env.isProduction /\ mig.state = "returned")
          => /\ mig.returned = executed
             /\ Range(mig.before) \subseteq Range(mig.returned)
             /\ (1..env.nFiles) \subseteq Range(mig.returned)
             /\ Len(mig.returned) = Cardinality(Range(mig.returned))

\* migrate returned in production while migrations were pending.
C5_Witness ==
    /\ env.isProduction
    /\ mig.state = "returned"
    /\ Len(pending) > 0

====
